---- MODULE Spec2Model ----
(***************************************************************************)
(* Financing ledger of the Finance-App dashboard: the amortization         *)
(* calculator (PRICE and SAC schedules), the status refresher, the         *)
(* extra-amortization simulator and the FinancingManager that owns the     *)
(* collection of financings and writes it through to localStorage.  The   *)
(* variable transactions is the transaction list of the FinanceManager,    *)
(* to which the extra-amortization dialog adds an expense.                 *)
(*                                                                         *)
(* Money is counted in cents: every amount the code stores has gone        *)
(* through round(), i.e. it is a multiple of 0.01, and is modelled by the  *)
(* integer number of cents.  The running values the code keeps unrounded   *)
(* (pmt, balance, interest inside the loops) are exact rationals           *)
(* <<numerator, denominator>>; the code computes them in IEEE doubles.     *)
(* Dates are the integer yyyymmdd of the ISO string "yyyy-mm-dd", so the   *)
(* code's string comparison of two dates is the integer comparison.        *)
(***************************************************************************)
EXTENDS Integers, Sequences, FiniteSets, TLC

VARIABLES financings, storage, clock, nextId, last, steps, transactions

vars == <<financings, storage, clock, nextId, last, steps, transactions>>

(***************************************************************************)
(* Bounds of the model.                                                    *)
(***************************************************************************)
MaxSteps == 3
MaxFinancings == 2
MaxTerm == 3

(***************************************************************************)
(* null of paidDate (a date or null) and of linkedTransactionId.           *)
(***************************************************************************)
NullDate == 0
NullTx == "null"

(***************************************************************************)
(* Exact rational arithmetic on <<n, d>> with d > 0, kept in lowest terms. *)
(***************************************************************************)
RECURSIVE GCD(_, _)
GCD(a, b) == IF b = 0 THEN a ELSE GCD(b, a % b)

Abs(x) == IF x < 0 THEN -x ELSE x

Norm(n, d) ==
  LET g == GCD(Abs(n), d)
  IN  IF n = 0 THEN <<0, 1>> ELSE <<n \div g, d \div g>>

Rat(n, d) == Norm(n, d)
FromInt(n) == <<n, 1>>
LCM(a, b) == (a \div GCD(a, b)) * b
RSub(x, y) ==
  LET l == LCM(x[2], y[2])
  IN  Norm(x[1] * (l \div x[2]) - y[1] * (l \div y[2]), l)
RAdd(x, y) ==
  LET l == LCM(x[2], y[2])
  IN  Norm(x[1] * (l \div x[2]) + y[1] * (l \div y[2]), l)
RMul(x, y) ==
  LET a == Norm(x[1], y[2])
      b == Norm(y[1], x[2])
  IN  <<a[1] * b[1], a[2] * b[2]>>
RDiv(x, y) == RMul(x, <<y[2], y[1]>>)
RLess(x, y) ==
  LET l == LCM(x[2], y[2])
  IN  x[1] * (l \div x[2]) < y[1] * (l \div y[2])
RLeq(x, y) == ~RLess(y, x)
RMax0(x) == IF x[1] < 0 THEN <<0, 1>> ELSE x
RECURSIVE RPow(_, _)
RPow(x, k) == IF k = 0 THEN <<1, 1>> ELSE RMul(x, RPow(x, k - 1))
RCeil(x) == -((-x[1]) \div x[2])

(***************************************************************************)
(* round(value) = Math.round(value * 100) / 100, in cents: the nearest     *)
(* integer, a half rounded towards plus infinity.                          *)
(***************************************************************************)
round(x) == (x[1] \div x[2]) + (IF 2 * (x[1] % x[2]) >= x[2] THEN 1 ELSE 0)

(***************************************************************************)
(* Calendar.  new Date(startDate + 'T00:00:00') then setMonth(month + i):  *)
(* the day of the month is kept and a day past the end of the target month *)
(* overflows into the following month.  The runtime's zone is taken to be  *)
(* at or behind UTC, where toISOString() gives the same calendar date.     *)
(***************************************************************************)
Year(d)  == d \div 10000
Month(d) == (d \div 100) % 100
Day(d)   == d % 100
MkDate(y, m, d) == y * 10000 + m * 100 + d
IsLeap(y) == (y % 4 = 0 /\ y % 100 # 0) \/ y % 400 = 0
DaysInMonth(y, m) ==
  IF m = 2 THEN (IF IsLeap(y) THEN 29 ELSE 28)
  ELSE IF m \in {4, 6, 9, 11} THEN 30 ELSE 31
setMonth(date, i) ==
  LET m0 == (Month(date) - 1) + i
      y  == Year(date) + (m0 \div 12)
      m  == (m0 % 12) + 1
      d  == Day(date)
      dim == DaysInMonth(y, m)
      m1 == ((m0 + 1) % 12) + 1
      y1 == Year(date) + ((m0 + 1) \div 12)
  IN  IF d <= dim THEN MkDate(y, m, d) ELSE MkDate(y1, m1, d - dim)

(***************************************************************************)
(* The amortization calculator.                                            *)
(***************************************************************************)
monthlyRate(annualRate) == Rat(annualRate, 1200)

Installment(i, due, amortization, interest, payment, balance) ==
  [number |-> i, dueDate |-> due,
   principal |-> round(amortization), interest |-> round(interest),
   payment |-> round(payment), balance |-> round(balance),
   status |-> "pending", paidDate |-> NullDate, linkedTransactionId |-> NullTx]

PricePmt(principal, annualRate, termMonths) ==
  LET r == monthlyRate(annualRate)
      factor == RPow(RAdd(<<1, 1>>, r), termMonths)
  IN  IF r[1] = 0 THEN Rat(principal[1], principal[2] * termMonths)
      ELSE RDiv(RMul(principal, RMul(r, factor)), RSub(factor, <<1, 1>>))

RECURSIVE PriceLoop(_, _, _, _, _, _)
PriceLoop(balance, pmt, r, i, termMonths, start) ==
  IF i > termMonths THEN <<>>
  ELSE LET interest == RMul(balance, r)
           amortization == RSub(pmt, interest)
           newBalance == RMax0(RSub(balance, amortization))
       IN  <<Installment(i, setMonth(start, i), amortization, interest, pmt, newBalance)>>
           \o PriceLoop(newBalance, pmt, r, i + 1, termMonths, start)

(* Variant of calculatePRICE: the loop stops one period early. *)
calculatePRICEShort(principal, annualRate, termMonths, startDate) ==
  PriceLoop(FromInt(principal), PricePmt(FromInt(principal), annualRate, termMonths),
            monthlyRate(annualRate), 1, termMonths - 1, startDate)

calculatePRICE(principal, annualRate, termMonths, startDate) ==
  PriceLoop(FromInt(principal), PricePmt(FromInt(principal), annualRate, termMonths),
            monthlyRate(annualRate), 1, termMonths, startDate)

RECURSIVE SacLoop(_, _, _, _, _, _)
SacLoop(balance, constantAmortization, r, i, termMonths, start) ==
  IF i > termMonths THEN <<>>
  ELSE LET interest == RMul(balance, r)
           payment == RAdd(constantAmortization, interest)
           newBalance == RMax0(RSub(balance, constantAmortization))
       IN  <<Installment(i, setMonth(start, i), constantAmortization, interest, payment, newBalance)>>
           \o SacLoop(newBalance, constantAmortization, r, i + 1, termMonths, start)

(* Variant of calculateSAC: the constant amortization is cut to whole cents. *)
calculateSACFloor(principal, annualRate, termMonths, startDate) ==
  SacLoop(FromInt(principal), FromInt(principal \div termMonths),
          monthlyRate(annualRate), 1, termMonths, startDate)

calculateSAC(principal, annualRate, termMonths, startDate) ==
  SacLoop(FromInt(principal), Rat(principal, termMonths),
          monthlyRate(annualRate), 1, termMonths, startDate)

(* The thrown Error of an unknown system is the value Thrown. *)
Thrown == "throw"
generateAmortizationTable(system, principal, annualRate, termMonths, startDate) ==
  IF system = "PRICE" THEN calculatePRICE(principal, annualRate, termMonths, startDate)
  ELSE IF system = "SAC" THEN calculateSAC(principal, annualRate, termMonths, startDate)
  ELSE Thrown

(***************************************************************************)
(* The status refresher; today is new Date().toISOString().split('T')[0].  *)
(***************************************************************************)
(* Variants of refreshOne: a refresh that also re-dates paid installments,  *)
(* and one that counts an installment due today as overdue.                *)
refreshOneRevertsPaid(installment, today) ==
  IF installment.dueDate < today THEN [installment EXCEPT !.status = "overdue"]
  ELSE [installment EXCEPT !.status = "pending"]

refreshOneInclusive(installment, today) ==
  IF installment.status = "paid" THEN installment
  ELSE IF installment.dueDate <= today THEN [installment EXCEPT !.status = "overdue"]
  ELSE [installment EXCEPT !.status = "pending"]

(* Variant of refreshOne: an unpaid installment past its due date swaps    *)
(* between overdue and pending.                                            *)
refreshOneToggles(installment, today) ==
  IF installment.status = "paid" THEN installment
  ELSE IF installment.dueDate < today
  THEN [installment EXCEPT !.status = IF @ = "overdue" THEN "pending" ELSE "overdue"]
  ELSE [installment EXCEPT !.status = "pending"]

refreshOne(installment, today) ==
  IF installment.status = "paid" THEN installment
  ELSE IF installment.dueDate < today THEN [installment EXCEPT !.status = "overdue"]
  ELSE [installment EXCEPT !.status = "pending"]

updateInstallmentStatuses(installments, today) ==
  [k \in 1..Len(installments) |-> refreshOne(installments[k], today)]

(***************************************************************************)
(* Array helpers: filter is SelectSeq; reduce over interest, find,         *)
(* findIndex.                                                              *)
(***************************************************************************)
IsPaid(i) == i.status = "paid"
NotPaid(i) == i.status # "paid"

RECURSIVE SumInterest(_)
SumInterest(s) == IF s = <<>> THEN 0 ELSE Head(s).interest + SumInterest(Tail(s))

RECURSIVE SumPayment(_)
SumPayment(s) == IF s = <<>> THEN 0 ELSE Head(s).payment + SumPayment(Tail(s))

IsPending(i) == i.status = "pending"
IsOverdue(i) == i.status = "overdue"

(* (paid / length) * 100 of an empty schedule. *)
NaN == "NaN"

(* calculateFinancingSummary; amounts in cents, progressPercent in         *)
(* hundredths of a percent.                                                *)
calculateFinancingSummary(installments, principal) ==
  LET paidInstallments == SelectSeq(installments, IsPaid)
      pendingInstallments == SelectSeq(installments, IsPending)
      overdueInstallments == SelectSeq(installments, IsOverdue)
      remainingBalance == IF Len(pendingInstallments) > 0
                          THEN pendingInstallments[1].balance + pendingInstallments[1].principal
                          ELSE 0
  IN  [principal |-> principal,
       totalPayment |-> SumPayment(installments),
       totalInterest |-> SumInterest(installments),
       paidCount |-> Len(paidInstallments),
       pendingCount |-> Len(pendingInstallments),
       overdueCount |-> Len(overdueInstallments),
       paidAmount |-> SumPayment(paidInstallments),
       remainingBalance |-> remainingBalance,
       progressPercent |-> IF Len(installments) = 0 THEN NaN
                           ELSE round(Rat(Len(paidInstallments) * 10000, Len(installments)))]

(* findIndex: the first index whose record has the id, 0 for -1. *)
findIndex(fs, id) ==
  IF \E k \in 1..Len(fs) : fs[k].id = id
  THEN CHOOSE k \in 1..Len(fs) : fs[k].id = id /\ \A j \in 1..(k - 1) : fs[j].id # id
  ELSE 0

(* find: the first index whose installment has the number, 0 for undefined. *)
findNumber(installments, number) ==
  IF \E k \in 1..Len(installments) : installments[k].number = number
  THEN CHOOSE k \in 1..Len(installments) :
         /\ installments[k].number = number
         /\ \A j \in 1..(k - 1) : installments[j].number # number
  ELSE 0

(***************************************************************************)
(* The extra-amortization simulator.  Its result is NoSimulation (null),   *)
(* Diverges (a held amortization of 0 makes the SAC term Infinity and the  *)
(* schedule loop endless) or the returned object.                          *)
(***************************************************************************)
NoSimulation == [null |-> TRUE]
Diverges == [diverges |-> TRUE]

(* Math.ceil(-ln(1 - B r / pmt) / ln(1 + r)): the least whole n with       *)
(* (1 + r)^n (pmt - B r) >= pmt.                                            *)
RECURSIVE PriceTerm(_, _, _, _)
PriceTerm(newBalance, r, pmt, n) ==
  IF RLeq(FromInt(pmt), RMul(RPow(RAdd(<<1, 1>>, r), n),
                             RSub(FromInt(pmt), RMul(FromInt(newBalance), r))))
  THEN n
  ELSE PriceTerm(newBalance, r, pmt, n + 1)

(* Variant of CurrentBalance: always the original principal. *)
CurrentBalancePrincipal(currentFinancing) == currentFinancing.principal

CurrentBalance(currentFinancing) ==
  LET paidInstallments == SelectSeq(currentFinancing.installments, IsPaid)
  IN  IF Len(paidInstallments) > 0
      THEN paidInstallments[Len(paidInstallments)].balance
      ELSE currentFinancing.principal

(* Variant of reducePayment: PRICE whatever the system. *)
reducePaymentAlwaysPrice(system, newBalance, annualRate, oldTerm, startDate) ==
  calculatePRICE(newBalance, annualRate, oldTerm, startDate)

(* reduce_payment: the same system over the same number of periods. *)
reducePayment(system, newBalance, annualRate, oldTerm, startDate) ==
  IF system = "PRICE"
  THEN calculatePRICE(newBalance, annualRate, oldTerm, startDate)
  ELSE calculateSAC(newBalance, annualRate, oldTerm, startDate)

(* The simulation once there are pending installments. *)
simulatePending(currentFinancing, extraAmount, strategy, today) ==
  LET annualRate == currentFinancing.annualRate
      system == currentFinancing.system
      pendingInstallments == SelectSeq(currentFinancing.installments, NotPaid)
      currentBalance == CurrentBalance(currentFinancing)
      newBalance == IF currentBalance - extraAmount > 0 THEN currentBalance - extraAmount ELSE 0
      r == monthlyRate(annualRate)
      oldTerm == Len(pendingInstallments)
      startDate == today
      startPayment == pendingInstallments[1].payment
      oldAmortization == pendingInstallments[1].principal
      Result(newInstallments) ==
        [newInstallments |-> newInstallments,
         savings |-> [interest |-> SumInterest(pendingInstallments) - SumInterest(newInstallments),
                      months |-> oldTerm - Len(newInstallments)],
         newTerm |-> Len(newInstallments),
         strategy |-> strategy]
  IN  IF newBalance <= 0
      THEN [newInstallments |-> <<>>,
            savings |-> [interest |-> SumInterest(pendingInstallments),
                         months |-> Len(pendingInstallments)],
            newTerm |-> 0]
      ELSE IF strategy = "reduce_payment"
      THEN Result(reducePayment(system, newBalance, annualRate, oldTerm, startDate))
      ELSE IF system = "PRICE"
      THEN (IF RLeq(FromInt(startPayment), RMul(FromInt(newBalance), r))
            THEN Result(calculatePRICE(newBalance, annualRate, oldTerm, startDate))
            ELSE Result(calculatePRICE(newBalance, annualRate,
                                       PriceTerm(newBalance, r, startPayment, 1), startDate)))
      ELSE IF oldAmortization = 0 THEN Diverges
      ELSE Result(calculateSAC(newBalance, annualRate,
                               RCeil(Rat(newBalance, oldAmortization)), startDate))

(* Variant of simulateExtraAmortization: no guard for a fully paid schedule. *)
simulateUnguarded(currentFinancing, extraAmount, strategy, today) ==
  simulatePending(currentFinancing, extraAmount, strategy, today)

simulateExtraAmortization(currentFinancing, extraAmount, strategy, today) ==
  IF Len(SelectSeq(currentFinancing.installments, NotPaid)) = 0 THEN NoSimulation
  ELSE simulatePending(currentFinancing, extraAmount, strategy, today)

(***************************************************************************)
(* Inputs of the operations.                                               *)
(***************************************************************************)
Principals == {1200}
Rates == {400}
Terms == 2..MaxTerm
Systems == {"PRICE", "SAC"}
StartDates == {20240115}
PrePaid == {<<0, 0>>, <<1, 1>>, <<2, 1>>}
AddInputs ==
  [name : {"A"}, type : {"house"}, principal : Principals, annualRate : Rates,
   termMonths : Terms, system : Systems, startDate : StartDates, prePaid : PrePaid]
(* A system the calculator does not know. *)
UnknownSystem == "SACRE"
UnknownSystemInputs ==
  {[name |-> "A", type |-> "house", principal |-> 1200, annualRate |-> 400,
    termMonths |-> 2, system |-> UnknownSystem, startDate |-> 20240115, prePaid |-> <<0, 0>>]}
(* Data a form would not accept: no name, a principal of 0, a term of -1. *)
MalformedInputs ==
  {[name |-> "", type |-> "house", principal |-> 1200, annualRate |-> 400,
    termMonths |-> 2, system |-> "PRICE", startDate |-> 20240115, prePaid |-> <<0, 0>>],
   [name |-> "A", type |-> "house", principal |-> 0, annualRate |-> 400,
    termMonths |-> 2, system |-> "PRICE", startDate |-> 20240115, prePaid |-> <<0, 0>>],
   [name |-> "A", type |-> "house", principal |-> 1200, annualRate |-> 400,
    termMonths |-> -1, system |-> "SAC", startDate |-> 20240115, prePaid |-> <<0, 0>>]}
UpdateInputs ==
  {[name |-> "B"], [principal |-> 1200], [termMonths |-> 2], [system |-> "SAC"],
   [system |-> UnknownSystem]}
MarkInputs == {<<NullDate, NullTx>>, <<20240301, "tx1">>}
LinkInputs == {"tx2"}
ExpenseAmounts == {300}
Extras == {1, 300, 1200}
Strategies == {"reduce_term", "reduce_payment"}
SaveOutcomes == BOOLEAN
(* The clock's successive values of today. *)
Days == <<20240315, 20240415>>
UnknownId == 0
Ids == {financings[k].id : k \in 1..Len(financings)}

(***************************************************************************)
(* FinancingManager.                                                       *)
(***************************************************************************)
Today == Days[clock]

(* Variant of saveToStorage: writes the collection as it was before the    *)
(* operation changed it.                                                   *)
saveStale(fs, ok) == IF ok THEN financings ELSE storage

(* saveToStorage: setItem of the serialized collection; a throwing setItem *)
(* (quota) is caught, logged and toasted, and the store keeps its content. *)
saveToStorage(collection, ok) == IF ok THEN collection ELSE storage

(* loadFromStorage: the parsed store with every schedule refreshed. *)
loadFromStorage ==
  [k \in 1..Len(storage) |->
     [storage[k] EXCEPT !.installments = updateInstallmentStatuses(@, Today)]]

generateThrows(system) == system # "PRICE" /\ system # "SAC"

Min(a, b) == IF a < b THEN a ELSE b

(* Variant of markPrePaid: one installment more is marked. *)
markPrePaidInclusive(installments, totalPaid) ==
  [k \in 1..Len(installments) |->
     IF k - 1 <= Min(totalPaid, Len(installments))
     THEN [installments[k] EXCEPT !.status = "paid", !.paidDate = installments[k].dueDate]
     ELSE installments[k]]

markPrePaid(installments, totalPaid) ==
  [k \in 1..Len(installments) |->
     IF k - 1 < Min(totalPaid, Len(installments))
     THEN [installments[k] EXCEPT !.status = "paid", !.paidDate = installments[k].dueDate]
     ELSE installments[k]]

newFinancing(data, id) ==
  [id |-> id, name |-> data.name, type |-> data.type,
   principal |-> data.principal, annualRate |-> data.annualRate,
   termMonths |-> data.termMonths, system |-> data.system,
   startDate |-> data.startDate,
   paidInstallments |-> data.prePaid[1], anticipatedInstallments |-> data.prePaid[2],
   installments |->
     markPrePaid(generateAmortizationTable(data.system, data.principal, data.annualRate,
                                           data.termMonths, data.startDate),
                 data.prePaid[1] + data.prePaid[2])]

Step == steps < MaxSteps /\ steps' = steps + 1

addFinancing(data, ok) ==
  /\ Step
  /\ Len(financings) < MaxFinancings
  /\ IF generateThrows(data.system)
     THEN /\ last' = [op |-> "addFinancing", id |-> nextId, outcome |-> "throw"]
          /\ UNCHANGED <<financings, storage, nextId>>
     ELSE /\ financings' = Append(financings, newFinancing(data, nextId))
          /\ storage' = saveToStorage(financings', ok)
          /\ nextId' = nextId + 1
          /\ last' = [op |-> "addFinancing", id |-> nextId, outcome |-> "ok", saved |-> ok]
  /\ UNCHANGED <<clock, transactions>>

(* { ...financing, ...updates } *)
Merge(financing, updates) ==
  [k \in DOMAIN financing \cup DOMAIN updates |->
     IF k \in DOMAIN updates THEN updates[k] ELSE financing[k]]

needsRegeneration(updates) ==
  DOMAIN updates \cap {"principal", "annualRate", "termMonths", "system", "startDate"} # {}

updatedFinancing(financing, updates) ==
  IF needsRegeneration(updates)
  THEN LET newData == Merge(financing, updates)
       IN  [newData EXCEPT !.installments =
              generateAmortizationTable(newData.system, newData.principal,
                                        newData.annualRate, newData.termMonths,
                                        newData.startDate)]
  ELSE Merge(financing, updates)

updateFinancing(id, updates, ok) ==
  LET index == findIndex(financings, id)
  IN  /\ Step
      /\ IF index = 0
         THEN /\ last' = [op |-> "updateFinancing", id |-> id, outcome |-> "false"]
              /\ UNCHANGED <<financings, storage>>
         ELSE IF needsRegeneration(updates)
                 /\ generateThrows(Merge(financings[index], updates).system)
         THEN /\ last' = [op |-> "updateFinancing", id |-> id, outcome |-> "throw"]
              /\ UNCHANGED <<financings, storage>>
         ELSE /\ financings' =
                   [financings EXCEPT ![index] = updatedFinancing(financings[index], updates)]
              /\ storage' = saveToStorage(financings', ok)
              /\ last' = [op |-> "updateFinancing", id |-> id, outcome |-> "true",
                          updates |-> updates, saved |-> ok]
      /\ UNCHANGED <<clock, nextId, transactions>>

(* Variant of RemoveAt: the first record goes, whatever the index. *)
RemoveAtFirst(s, index) == Tail(s)

(* splice(index, 1) *)
RemoveAt(s, index) == SubSeq(s, 1, index - 1) \o SubSeq(s, index + 1, Len(s))

deleteFinancing(id, ok) ==
  LET index == findIndex(financings, id)
  IN  /\ Step
      /\ IF index = 0
         THEN /\ last' = [op |-> "deleteFinancing", id |-> id, outcome |-> "false"]
              /\ UNCHANGED <<financings, storage>>
         ELSE /\ financings' = RemoveAt(financings, index)
              /\ storage' = saveToStorage(financings', ok)
              /\ last' = [op |-> "deleteFinancing", id |-> id, outcome |-> "true", saved |-> ok]
      /\ UNCHANGED <<clock, nextId, transactions>>

(* Variant of paidInstallment: the transaction is not linked. *)
paidInstallmentUnlinked(installment, paidDate, transactionId, today) ==
  [installment EXCEPT !.status = "paid",
                      !.paidDate = IF paidDate # NullDate THEN paidDate ELSE today]

(* Variant of paidInstallment: no default for an omitted date. *)
paidInstallmentNoDefault(installment, paidDate, transactionId, today) ==
  [installment EXCEPT !.status = "paid",
                      !.paidDate = paidDate,
                      !.linkedTransactionId = transactionId]

paidInstallment(installment, paidDate, transactionId, today) ==
  [installment EXCEPT !.status = "paid",
                      !.paidDate = IF paidDate # NullDate THEN paidDate ELSE today,
                      !.linkedTransactionId = transactionId]

markInstallmentPaid(financingId, installmentNumber, paidDate, transactionId, ok) ==
  LET index == findIndex(financings, financingId)
      at == IF index = 0 THEN 0
            ELSE findNumber(financings[index].installments, installmentNumber)
  IN  /\ Step
      /\ IF index = 0 \/ at = 0
         THEN /\ last' = [op |-> "markInstallmentPaid", id |-> financingId,
                          number |-> installmentNumber, outcome |-> "false"]
              /\ UNCHANGED <<financings, storage>>
         ELSE /\ financings' =
                   [financings EXCEPT ![index].installments[at] =
                      paidInstallment(@, paidDate, transactionId, Today)]
              /\ storage' = saveToStorage(financings', ok)
              /\ last' = [op |-> "markInstallmentPaid", id |-> financingId,
                          number |-> installmentNumber, outcome |-> "true",
                          paidDate |-> paidDate, transactionId |-> transactionId,
                          saved |-> ok]
      /\ UNCHANGED <<clock, nextId, transactions>>

(* linkTransaction: markInstallmentPaid with no date. *)
linkTransaction(financingId, installmentNumber, transactionId, ok) ==
  markInstallmentPaid(financingId, installmentNumber, NullDate, transactionId, ok)

(* Variant of finalInstallments: the new installments keep their numbers. *)
finalInstallmentsKeepNumbers(financing, simulation) ==
  SelectSeq(financing.installments, IsPaid) \o simulation.newInstallments

(* The installments applyExtraAmortization stores: the paid ones, then the *)
(* simulation's, renumbered after the last paid one's number.               *)
finalInstallments(financing, simulation) ==
  LET paidInstallments == SelectSeq(financing.installments, IsPaid)
      lastNumber == IF Len(paidInstallments) > 0
                    THEN paidInstallments[Len(paidInstallments)].number ELSE 0
      activeNewInstallments ==
        [k \in 1..Len(simulation.newInstallments) |->
           [simulation.newInstallments[k] EXCEPT !.number = @ + lastNumber]]
  IN  paidInstallments \o activeNewInstallments

appliedFinancing(financing, simulation) ==
  [financing EXCEPT !.installments = finalInstallments(financing, simulation),
                    !.termMonths = Len(finalInstallments(financing, simulation))]

applyExtraAmortization(id, extraAmount, strategy, ok) ==
  LET index == findIndex(financings, id)
      simulation == simulateExtraAmortization(financings[index], extraAmount, strategy, Today)
  IN  /\ Step
      /\ IF index = 0
         THEN /\ last' = [op |-> "applyExtraAmortization", id |-> id, outcome |-> "null"]
              /\ UNCHANGED <<financings, storage>>
         ELSE IF simulation = NoSimulation
         THEN /\ last' = [op |-> "applyExtraAmortization", id |-> id, outcome |-> "throw"]
              /\ UNCHANGED <<financings, storage>>
         ELSE IF simulation = Diverges
         THEN /\ last' = [op |-> "applyExtraAmortization", id |-> id, outcome |-> "diverges"]
              /\ UNCHANGED <<financings, storage>>
         ELSE /\ financings' =
                   [financings EXCEPT ![index] = appliedFinancing(financings[index], simulation)]
              /\ storage' = saveToStorage(financings', ok)
              /\ last' = [op |-> "applyExtraAmortization", id |-> id, outcome |-> "ok",
                          extraAmount |-> extraAmount, strategy |-> strategy, saved |-> ok,
                          ret |-> [newTerm |-> Len(finalInstallments(financings[index], simulation)),
                                   savings |-> simulation.savings]]
      /\ UNCHANGED <<clock, nextId, transactions>>

(* FinanceManager.addTransaction: the new transaction goes to the front of *)
(* the list.  The list's own store is written through by the same call and *)
(* is not a variable here.                                                 *)
addTransaction(transaction) ==
  <<[id |-> Len(transactions) + 1] @@ transaction>> \o transactions

(* FinancingUI.handleApplyExtra with a financing chosen, a positive amount *)
(* and the application confirmed: the expense, when the user asks for it,  *)
(* is added first, then applyExtraAmortization runs inside the try block   *)
(* whose catch shows the error.                                            *)
handleApplyExtra(currentFinancingId, amount, strategy, recordExpense, ok) ==
  LET index == findIndex(financings, currentFinancingId)
      simulation == simulateExtraAmortization(financings[index], amount, strategy, Today)
      record(outcome) ==
        [op |-> "handleApplyExtra", id |-> currentFinancingId, outcome |-> outcome,
         extraAmount |-> amount, strategy |-> strategy, recordExpense |-> recordExpense]
  IN  /\ Step
      /\ amount > 0
      /\ transactions' =
           IF recordExpense
           THEN addTransaction([type |-> "expense", amount |-> amount,
                                category |-> "Financiamento", date |-> Today,
                                account |-> "Extra"])
           ELSE transactions
      /\ IF index = 0
         THEN /\ last' = record("null")
              /\ UNCHANGED <<financings, storage>>
         ELSE IF simulation = NoSimulation
         THEN /\ last' = record("throw")
              /\ UNCHANGED <<financings, storage>>
         ELSE IF simulation = Diverges
         THEN /\ last' = record("diverges")
              /\ UNCHANGED <<financings, storage>>
         ELSE /\ financings' =
                   [financings EXCEPT ![index] = appliedFinancing(financings[index], simulation)]
              /\ storage' = saveToStorage(financings', ok)
              /\ last' = record("ok")
      /\ UNCHANGED <<clock, nextId>>

(* Variant of handleSimulateExtra: the simulation filters the schedule in place. *)
handleSimulateExtraInPlace(id, amount, strategy) ==
  LET index == findIndex(financings, id)
  IN  /\ Step
      /\ index # 0
      /\ last' = [op |-> "simulateExtraAmortization", id |-> id,
                  extraAmount |-> amount, strategy |-> strategy,
                  ret |-> simulateExtraAmortization(financings[index], amount, strategy, Today)]
      /\ financings' = [financings EXCEPT ![index].installments = SelectSeq(@, NotPaid)]
      /\ UNCHANGED <<storage, clock, nextId, transactions>>

(* FinancingUI.handleSimulateExtra: the simulation of the chosen financing, *)
(* shown and not committed.                                                 *)
handleSimulateExtra(id, amount, strategy) ==
  LET index == findIndex(financings, id)
  IN  /\ Step
      /\ index # 0
      /\ last' = [op |-> "simulateExtraAmortization", id |-> id,
                  extraAmount |-> amount, strategy |-> strategy,
                  ret |-> simulateExtraAmortization(financings[index], amount, strategy, Today)]
      /\ UNCHANGED <<financings, storage, clock, nextId, transactions>>

(* getOverdueCount: the installments whose stored status is overdue, over  *)
(* all financings.                                                         *)
RECURSIVE getOverdueCount(_)
getOverdueCount(fs) ==
  IF fs = <<>> THEN 0
  ELSE Len(SelectSeq(Head(fs).installments, IsOverdue)) + getOverdueCount(Tail(fs))

(* getFinancingSummary: the summary of one financing, or null. *)
getFinancingSummary(id) ==
  LET index == findIndex(financings, id)
  IN  /\ Step
      /\ IF index = 0
         THEN last' = [op |-> "getFinancingSummary", id |-> id, outcome |-> "null"]
         ELSE last' = [op |-> "getFinancingSummary", id |-> id, outcome |-> "ok",
                       ret |-> calculateFinancingSummary(financings[index].installments,
                                                         financings[index].principal)]
      /\ UNCHANGED <<financings, storage, clock, nextId, transactions>>

RECURSIVE SumRemaining(_)
SumRemaining(fs) ==
  IF fs = <<>> THEN 0
  ELSE calculateFinancingSummary(Head(fs).installments, Head(fs).principal).remainingBalance
         + SumRemaining(Tail(fs))

(* getTotalRemainingBalance: the remaining balances of all financings added up. *)
getTotalRemainingBalance ==
  /\ Step
  /\ last' = [op |-> "getTotalRemainingBalance", id |-> UnknownId, outcome |-> "ok",
              ret |-> SumRemaining(financings)]
  /\ UNCHANGED <<financings, storage, clock, nextId, transactions>>

(* { ...i, financingId: f.id, financingName: f.name } *)
withFinancing(i, f) ==
  [k \in DOMAIN i \cup {"financingId", "financingName"} |->
     IF k = "financingId" THEN f.id ELSE IF k = "financingName" THEN f.name ELSE i[k]]

(* The non-paid installments of all financings, in insertion order. *)
RECURSIVE allInstallments(_)
allInstallments(fs) ==
  IF fs = <<>> THEN <<>>
  ELSE LET f == Head(fs)
           unpaid == SelectSeq(f.installments, NotPaid)
       IN  [k \in 1..Len(unpaid) |-> withFinancing(unpaid[k], f)] \o allInstallments(Tail(fs))

(* Variant of InsertByDueDate: before the entries of the same dueDate. *)
RECURSIVE InsertBeforeTies(_, _)
InsertBeforeTies(x, s) ==
  IF s = <<>> THEN <<x>>
  ELSE IF x.dueDate <= Head(s).dueDate THEN <<x>> \o s
  ELSE <<Head(s)>> \o InsertBeforeTies(x, Tail(s))

(* Array.prototype.sort is stable: an entry goes after the sorted entries  *)
(* that came before it and compare equal to it.                            *)
RECURSIVE InsertByDueDate(_, _)
InsertByDueDate(x, s) ==
  IF s = <<>> THEN <<x>>
  ELSE IF x.dueDate < Head(s).dueDate THEN <<x>> \o s
  ELSE <<Head(s)>> \o InsertByDueDate(x, Tail(s))

(* sort((a, b) => a.dueDate.localeCompare(b.dueDate)) *)
RECURSIVE sortByDueDate(_)
sortByDueDate(s) ==
  IF s = <<>> THEN <<>>
  ELSE InsertByDueDate(s[Len(s)], sortByDueDate(SubSeq(s, 1, Len(s) - 1)))

(* slice(0, count) *)
slice(s, count) == SubSeq(s, 1, Min(count, Len(s)))

Counts == {3, 5}

getUpcomingInstallments(count) ==
  /\ Step
  /\ last' = [op |-> "getUpcomingInstallments", id |-> UnknownId, outcome |-> "ok",
              count |-> count,
              ret |-> slice(sortByDueDate(allInstallments(financings)), count)]
  /\ UNCHANGED <<financings, storage, clock, nextId, transactions>>

(* simulateExtraAmortization called with a financing object of the         *)
(* caller's own making.                                                    *)
simulateExtraAmortizationCall(currentFinancing, extraAmount, strategy) ==
  LET ret == simulateExtraAmortization(currentFinancing, extraAmount, strategy, Today)
  IN  /\ Step
      /\ last' = [op |-> "simulateExtraAmortizationCall", id |-> currentFinancing.id,
                  system |-> currentFinancing.system,
                  extraAmount |-> extraAmount, strategy |-> strategy,
                  outcome |-> IF ret = NoSimulation THEN "null" ELSE "ok",
                  ret |-> ret]
      /\ UNCHANGED <<financings, storage, clock, nextId, transactions>>

(* A page load: the constructor's this.financings = this.loadFromStorage(). *)
constructor ==
  /\ Step
  /\ financings' = loadFromStorage
  /\ last' = [op |-> "constructor", id |-> UnknownId, outcome |-> "ok"]
  /\ UNCHANGED <<storage, clock, nextId, transactions>>

(* The date changes. *)
Tick ==
  /\ Step
  /\ clock < Len(Days)
  /\ clock' = clock + 1
  /\ last' = [op |-> "tick", id |-> UnknownId, outcome |-> "ok"]
  /\ UNCHANGED <<financings, storage, nextId, transactions>>

Init ==
  /\ storage = <<>>
  /\ financings = <<>>
  /\ clock = 1
  /\ nextId = 1
  /\ steps = 0
  /\ transactions = <<>>
  /\ last = [op |-> "constructor", id |-> UnknownId, outcome |-> "ok"]

Numbers(id) ==
  LET index == findIndex(financings, id)
  IN  IF index = 0 THEN {0}
      ELSE {0} \cup {financings[index].installments[k].number :
                       k \in 1..Len(financings[index].installments)}

Next ==
  \/ \E data \in AddInputs \cup MalformedInputs \cup UnknownSystemInputs, ok \in SaveOutcomes :
       addFinancing(data, ok)
  \/ \E id \in Ids \cup {UnknownId}, updates \in UpdateInputs, ok \in SaveOutcomes :
       updateFinancing(id, updates, ok)
  \/ \E id \in Ids \cup {UnknownId}, ok \in SaveOutcomes : deleteFinancing(id, ok)
  \/ \E id \in Ids \cup {UnknownId}, m \in MarkInputs, ok \in SaveOutcomes :
       \E number \in Numbers(id) : markInstallmentPaid(id, number, m[1], m[2], ok)
  \/ \E id \in Ids \cup {nextId}, x \in ExpenseAmounts, s \in Strategies,
        recordExpense \in BOOLEAN, ok \in SaveOutcomes :
       handleApplyExtra(id, x, s, recordExpense, ok)
  \/ \E id \in Ids, transactionId \in LinkInputs, ok \in SaveOutcomes :
       \E number \in Numbers(id) : linkTransaction(id, number, transactionId, ok)
  \/ \E id \in Ids \cup {UnknownId}, x \in Extras, s \in Strategies, ok \in SaveOutcomes :
       applyExtraAmortization(id, x, s, ok)
  \/ \E id \in Ids, x \in Extras, s \in Strategies : handleSimulateExtra(id, x, s)
  \/ \E count \in Counts : getUpcomingInstallments(count)
  \/ constructor
  \/ Tick

Spec == Init /\ [][Next]_vars

(***************************************************************************)
(* The calculator, the refresher and the simulator on their own: one call  *)
(* on a financing whose terms and installment statuses are drawn from      *)
(* bounded sets (a status of overdue on a date not yet due is what a clock *)
(* set back leaves behind).                                                *)
(***************************************************************************)
MaxCalcTerm == 4
CalcPrincipals == {1200, 5000}
CalcTerms == 1..MaxCalcTerm
CalcStartDates == {20240115, 20240131}
CalcExtras == {1, 300, 1250, 5000}
Statuses == {"pending", "overdue", "paid"}

withStatuses(installments, st) ==
  [k \in 1..Len(installments) |->
     IF st[k] = "paid"
     THEN [installments[k] EXCEPT !.status = "paid", !.paidDate = installments[k].dueDate]
     ELSE [installments[k] EXCEPT !.status = st[k]]]

calcFinancing(system, principal, termMonths, st) ==
  [id |-> 1, name |-> "A", type |-> "house", principal |-> principal,
   annualRate |-> 120, termMonths |-> termMonths, system |-> system,
   startDate |-> 20240115, paidInstallments |-> 0, anticipatedInstallments |-> 0,
   installments |->
     withStatuses(generateAmortizationTable(system, principal, 120, termMonths, 20240115), st)]

InitCalc ==
  /\ \E system \in Systems, principal \in CalcPrincipals, termMonths \in CalcTerms :
       \E st \in [1..termMonths -> Statuses] :
         financings = <<calcFinancing(system, principal, termMonths, st)>>
  /\ storage = financings
  /\ clock \in 1..Len(Days)
  /\ nextId = 2
  /\ steps = MaxSteps - 1
  /\ transactions = <<>>
  /\ last = [op |-> "init", id |-> UnknownId, outcome |-> "ok"]

(* generateAmortizationTable called on its own. *)
generate(system, principal, annualRate, termMonths, startDate) ==
  /\ Step
  /\ last' = [op |-> "generateAmortizationTable", id |-> UnknownId,
              system |-> system, principal |-> principal, annualRate |-> annualRate,
              termMonths |-> termMonths, startDate |-> startDate,
              ret |-> generateAmortizationTable(system, principal, annualRate,
                                                termMonths, startDate)]
  /\ UNCHANGED <<financings, storage, clock, nextId, transactions>>

NextCalc ==
  \/ \E x \in CalcExtras, s \in Strategies : handleSimulateExtra(1, x, s)
  \/ \E system \in Systems, principal \in CalcPrincipals, termMonths \in CalcTerms,
        startDate \in CalcStartDates :
       generate(system, principal, 120, termMonths, startDate)
  \/ constructor
  \/ getFinancingSummary(1)
  \/ getTotalRemainingBalance
  \/ \E data \in UnknownSystemInputs, ok \in SaveOutcomes : addFinancing(data, ok)
  \/ \E ok \in SaveOutcomes : updateFinancing(1, [system |-> UnknownSystem], ok)
  \/ \E s \in Strategies :
       simulateExtraAmortizationCall([financings[1] EXCEPT !.system = UnknownSystem], 300, s)

SpecCalc == InitCalc /\ [][NextCalc]_vars

(***************************************************************************)
(* Properties.                                                             *)
(***************************************************************************)
AllPaid(f) == \A k \in 1..Len(f.installments) : f.installments[k].status = "paid"
NonPaid(f) == SelectSeq(f.installments, NotPaid)
PaidOf(f) == SelectSeq(f.installments, IsPaid)
(* The balance of the last paid installment, or the principal. *)
Outstanding(f) ==
  IF PaidOf(f) = <<>> THEN f.principal ELSE PaidOf(f)[Len(PaidOf(f))].balance

(* C1: in every reachable state the installments of every financing of the *)
(* collection are numbered 1..N in order, without gaps or duplicates.      *)
C1_ContiguousNumbers ==
  \A i \in 1..Len(financings) :
    \A k \in 1..Len(financings[i].installments) :
      financings[i].installments[k].number = k

(* Every installment paid in old is, where new still holds its financing   *)
(* and an installment of its number, paid in new.                          *)
PaidKept(old, new) ==
  \A i \in 1..Len(old) : \A k \in 1..Len(old[i].installments) :
    old[i].installments[k].status = "paid" =>
      \A j \in 1..Len(new) : new[j].id = old[i].id =>
        \A m \in 1..Len(new[j].installments) :
          new[j].installments[m].number = old[i].installments[k].number =>
            new[j].installments[m].status = "paid"

Regenerates ==
  /\ last'.op = "updateFinancing"
  /\ last'.outcome = "true"
  /\ needsRegeneration(last'.updates)

C3_ApplySplices ==
  [][(last'.op = "applyExtraAmortization" /\ last'.outcome = "ok") =>
       LET index == findIndex(financings, last'.id)
           before == financings[index]
           after == financings'[index]
           paid == PaidOf(before)
           lastPaidNumber == IF paid = <<>> THEN 0 ELSE paid[Len(paid)].number
           new == simulateExtraAmortization(before, last'.extraAmount,
                                            last'.strategy, Today).newInstallments
       IN  /\ Len(after.installments) = Len(paid) + Len(new)
           /\ \A k \in 1..Len(paid) : after.installments[k] = paid[k]
           /\ \A k \in 1..Len(new) :
                after.installments[Len(paid) + k] = [new[k] EXCEPT !.number = lastPaidNumber + k]
           /\ after.termMonths = Len(paid) + Len(new)]_vars

C3_Witness ==
  /\ last.op = "applyExtraAmortization"
  /\ last.outcome = "ok"
  /\ LET f == financings[findIndex(financings, last.id)]
     IN  /\ Len(PaidOf(f)) >= 1
         /\ Len(NonPaid(f)) >= 2
         /\ f.installments[1].status = "paid"
         /\ f.installments[Len(PaidOf(f)) + 1].number = PaidOf(f)[Len(PaidOf(f))].number + 1

(* C4: on a financing whose installments are all paid the simulation is    *)
(* null for every amount and strategy, and applyExtraAmortization throws   *)
(* and leaves the collection and the store as they were.                   *)
C4_NoPendingGuard ==
  [][\A i \in 1..Len(financings) : AllPaid(financings[i]) =>
       /\ \A x \in Extras, s \in Strategies :
            simulateExtraAmortization(financings[i], x, s, Today) = NoSimulation
       /\ (last'.op = "simulateExtraAmortization" /\ last'.id = financings[i].id) =>
            last'.ret = NoSimulation
       /\ (last'.op = "applyExtraAmortization" /\ last'.id = financings[i].id) =>
            /\ last'.outcome = "throw"
            /\ financings' = financings
            /\ storage' = storage]_vars

C4_Witness ==
  /\ last.op = "applyExtraAmortization"
  /\ last.outcome = "throw"
  /\ LET f == financings[findIndex(financings, last.id)]
     IN  Len(f.installments) >= 2 /\ AllPaid(f)

(* C5: with at least 2 non-paid installments, an extra amount > 0 and a   *)
(* positive new balance, the reduce_term simulation returns newTerm <= the *)
(* number of non-paid installments (savings.months >= 0) and               *)
(* savings.interest >= 0.                                                  *)
C5_ReduceTermMonotone ==
  (last.op = "simulateExtraAmortization" /\ last.strategy = "reduce_term") =>
    LET f == financings[1]
    IN  (Len(NonPaid(f)) >= 2 /\ last.extraAmount > 0 /\ Outstanding(f) - last.extraAmount > 0) =>
          /\ last.ret # Diverges
          /\ last.ret.newTerm <= Len(NonPaid(f))
          /\ last.ret.savings.months >= 0
          /\ last.ret.savings.interest >= 0

(* C6: generateAmortizationTable returns termMonths installments numbered  *)
(* 1..termMonths in order, each pending with no paidDate and no linked     *)
(* transaction.                                                            *)
C6_ScheduleComplete ==
  last.op = "generateAmortizationTable" =>
    /\ Len(last.ret) = last.termMonths
    /\ \A k \in 1..Len(last.ret) :
         /\ last.ret[k].number = k
         /\ last.ret[k].status = "pending"
         /\ last.ret[k].paidDate = NullDate
         /\ last.ret[k].linkedTransactionId = NullTx

C6_Witness ==
  /\ last.op = "generateAmortizationTable"
  /\ last.system = "PRICE"
  /\ last.termMonths >= 3
  /\ Len(last.ret) >= 3

(* C7: with a non-paid installment left and extraAmount >= the current     *)
(* balance, either strategy returns no new installments, newTerm 0,        *)
(* savings.months the number of non-paid installments and savings.interest *)
(* the sum of their interest.                                              *)
C7_FullPayoff ==
  last.op = "simulateExtraAmortization" =>
    LET f == financings[1]
    IN  (Len(NonPaid(f)) >= 1 /\ last.extraAmount >= Outstanding(f)) =>
          /\ last.ret.newInstallments = <<>>
          /\ last.ret.newTerm = 0
          /\ last.ret.savings.months = Len(NonPaid(f))
          /\ last.ret.savings.interest = SumInterest(NonPaid(f))

C7_Witness ==
  /\ last.op = "simulateExtraAmortization"
  /\ Len(PaidOf(financings[1])) >= 1
  /\ Len(NonPaid(financings[1])) >= 2
  /\ Outstanding(financings[1]) > 0
  /\ last.extraAmount >= Outstanding(financings[1])
  /\ last.extraAmount < financings[1].principal
  /\ last.ret.newTerm = 0

(* C8: reduce_payment with a positive new balance keeps the term: newTerm  *)
(* is the number of non-paid installments, savings.months is 0 and the new *)
(* schedule is the financing's own system generated over that many periods *)
(* with the new balance as principal.                                      *)
C8_ReducePaymentKeepsTerm ==
  (last.op = "simulateExtraAmortization" /\ last.strategy = "reduce_payment") =>
    LET f == financings[1]
        newBalance == Outstanding(f) - last.extraAmount
    IN  (Len(NonPaid(f)) >= 1 /\ newBalance > 0) =>
          /\ last.ret.newTerm = Len(NonPaid(f))
          /\ last.ret.savings.months = 0
          /\ last.ret.newInstallments =
               generateAmortizationTable(f.system, newBalance, f.annualRate,
                                         Len(NonPaid(f)), Today)

C8_Witness ==
  /\ last.op = "simulateExtraAmortization"
  /\ last.strategy = "reduce_payment"
  /\ financings[1].system = "SAC"
  /\ Len(PaidOf(financings[1])) >= 1
  /\ Len(NonPaid(financings[1])) >= 2
  /\ Outstanding(financings[1]) - last.extraAmount > 0
  /\ last.ret.newTerm = Len(NonPaid(financings[1]))

(* C9: a simulation changes neither the collection (no financing, no       *)
(* installment) nor the store.                                             *)
C9_SimulationMutatesNothing ==
  [][last'.op = "simulateExtraAmortization" =>
       (financings' = financings /\ storage' = storage)]_vars

C9_Witness ==
  /\ last.op = "simulateExtraAmortization"
  /\ last.ret # NoSimulation
  /\ last.ret.newTerm >= 2
  /\ Len(PaidOf(financings[findIndex(financings, last.id)])) >= 1

(* C10: the refresh returns the installments in their order, a paid one    *)
(* unchanged, any other one with status overdue when dueDate < today and   *)
(* pending when dueDate >= today, and no other field changed.              *)
C10_Refresh ==
  last.op = "constructor" =>
    /\ Len(financings) = Len(storage)
    /\ \A i \in 1..Len(storage) :
         /\ Len(financings[i].installments) = Len(storage[i].installments)
         /\ \A k \in 1..Len(storage[i].installments) :
              LET old == storage[i].installments[k]
                  new == financings[i].installments[k]
              IN  /\ old.status = "paid" => new = old
                  /\ (old.status # "paid" /\ old.dueDate < Today) => new.status = "overdue"
                  /\ (old.status # "paid" /\ old.dueDate >= Today) => new.status = "pending"
                  /\ [new EXCEPT !.status = old.status] = old

C10_Witness ==
  /\ last.op = "constructor"
  /\ Len(financings) = 1
  /\ \E k \in 1..Len(storage[1].installments) :
       /\ storage[1].installments[k].dueDate = Today
       /\ storage[1].installments[k].status = "overdue"
       /\ financings[1].installments[k].status = "pending"
  /\ \E k \in 1..Len(storage[1].installments) :
       /\ storage[1].installments[k].dueDate < Today
       /\ storage[1].installments[k].status = "pending"
       /\ financings[1].installments[k].status = "overdue"
  /\ \E k \in 1..Len(storage[1].installments) :
       /\ storage[1].installments[k].dueDate < Today
       /\ storage[1].installments[k].status = "paid"
       /\ financings[1].installments[k] = storage[1].installments[k]

(* C11: for a fixed today, refreshing a refreshed schedule returns it      *)
(* unchanged: refresh(refresh(s)) = refresh(s), for the schedules in       *)
(* memory and in the store and every date of the clock.                    *)
C11_RefreshIdempotent ==
  \A d \in 1..Len(Days) :
    /\ \A i \in 1..Len(financings) :
         LET once == updateInstallmentStatuses(financings[i].installments, Days[d])
         IN  updateInstallmentStatuses(once, Days[d]) = once
    /\ \A i \in 1..Len(storage) :
         LET once == updateInstallmentStatuses(storage[i].installments, Days[d])
         IN  updateInstallmentStatuses(once, Days[d]) = once

C11_Witness ==
  /\ last.op = "constructor"
  /\ Len(financings) = 1
  /\ financings[1].installments # storage[1].installments
  /\ updateInstallmentStatuses(financings[1].installments, Today) = financings[1].installments
  /\ \E k \in 1..Len(financings[1].installments) :
       /\ financings[1].installments[k].status = "overdue"
       /\ storage[1].installments[k].status = "pending"
  /\ \E k \in 1..Len(financings[1].installments) :
       /\ financings[1].installments[k].status = "paid"
       /\ financings[1].installments[k].dueDate < Today

(* A core field of the updates whose value differs from the stored one. *)
CoreChanged(financing, updates) ==
  \E k \in DOMAIN updates \cap {"principal", "annualRate", "termMonths", "system", "startDate"} :
    updates[k] # financing[k]

(* C12: updateFinancing on a known id regenerates the schedule (every      *)
(* installment pending) when the value of a core field changes, and leaves *)
(* the installments as they were when none changes, core fields passed     *)
(* with their current values included.                                     *)
C12_RegeneratesIffChanged ==
  [][(last'.op = "updateFinancing" /\ last'.outcome = "true") =>
       LET index == findIndex(financings, last'.id)
           before == financings[index]
           after == financings'[index]
       IN  IF CoreChanged(before, last'.updates)
           THEN after.installments =
                  generateAmortizationTable(after.system, after.principal, after.annualRate,
                                            after.termMonths, after.startDate)
           ELSE after.installments = before.installments]_vars

(* C13: updateFinancing and deleteFinancing on an unknown id, and          *)
(* markInstallmentPaid on an unknown id or on a number the financing does  *)
(* not hold, return false and leave the collection and the store as they   *)
(* were; deleteFinancing on a known id removes that record and keeps the   *)
(* others, in their order.                                                 *)
C13_NotFound ==
  [][LET index == findIndex(financings, last'.id)
     IN  /\ (last'.op \in {"updateFinancing", "deleteFinancing"} /\ index = 0) =>
              last'.outcome = "false"
         /\ (last'.op = "markInstallmentPaid"
               /\ (index = 0 \/ findNumber(financings[index].installments, last'.number) = 0)) =>
              last'.outcome = "false"
         /\ (last'.op \in {"updateFinancing", "deleteFinancing", "markInstallmentPaid"}
               /\ last'.outcome = "false") =>
              (financings' = financings /\ storage' = storage)
         /\ (last'.op = "deleteFinancing" /\ index # 0) =>
              /\ last'.outcome = "true"
              /\ Len(financings') = Len(financings) - 1
              /\ \A k \in 1..Len(financings') :
                   financings'[k] = IF k < index THEN financings[k] ELSE financings[k + 1]]_vars

C13_Witness ==
  /\ last.op = "markInstallmentPaid"
  /\ last.outcome = "false"
  /\ findIndex(financings, last.id) # 0
  /\ storage # financings
  /\ Len(financings) = 2

(* C14: addFinancing rejects malformed data (no name, a principal, rate or *)
(* term that is not positive) before it generates a schedule: a call that  *)
(* appends a record and returns it was given well-formed data, and a call  *)
(* that reports an error leaves the collection and the store as they were. *)
C14_MalformedRejected ==
  [][last'.op = "addFinancing" =>
       IF last'.outcome = "ok"
       THEN LET f == financings'[Len(financings')]
            IN  /\ f.name # ""
                /\ f.principal > 0
                /\ f.annualRate > 0
                /\ f.termMonths > 0
       ELSE financings' = financings /\ storage' = storage]_vars

(* C15: addFinancing appends, in one step, the record with its full        *)
(* schedule, whose first min(k, termMonths) installments are paid with     *)
(* paidDate their own dueDate, k being paidInstallments +                  *)
(* anticipatedInstallments, and whose later installments are pending with  *)
(* no paidDate.                                                            *)
C15_PrePaidPrefix ==
  [][(last'.op = "addFinancing" /\ last'.outcome = "ok") =>
       LET f == financings'[Len(financings')]
           k == f.paidInstallments + f.anticipatedInstallments
           table == generateAmortizationTable(f.system, f.principal, f.annualRate,
                                              f.termMonths, f.startDate)
       IN  /\ financings' = Append(financings, f)
           /\ f.id = last'.id
           /\ Len(f.installments) = Len(table)
           /\ \A j \in 1..Len(f.installments) :
                /\ f.installments[j] = [table[j] EXCEPT !.status = f.installments[j].status,
                                                        !.paidDate = f.installments[j].paidDate]
                /\ IF j <= k /\ j <= f.termMonths
                   THEN /\ f.installments[j].status = "paid"
                        /\ f.installments[j].paidDate = f.installments[j].dueDate
                   ELSE /\ f.installments[j].status = "pending"
                        /\ f.installments[j].paidDate = NullDate]_vars

C15_Witness ==
  /\ last.op = "addFinancing"
  /\ last.outcome = "ok"
  /\ Len(financings) = 2
  /\ financings[1].termMonths = 3
  /\ financings[1].paidInstallments + financings[1].anticipatedInstallments = 2
  /\ financings[1].installments[2].status = "paid"
  /\ financings[1].installments[3].status = "pending"
  /\ financings[2].termMonths = 2
  /\ financings[2].paidInstallments + financings[2].anticipatedInstallments = 3
  /\ AllPaid(financings[2])

(* C16: a successful markInstallmentPaid changes one installment: the one  *)
(* of the given number becomes paid, with paidDate the given date, or      *)
(* today when none is given, and linkedTransactionId the given id, or      *)
(* null; every other installment and every other financing stay as they   *)
(* were.                                                                   *)
C16_MarkChangesOne ==
  [][(last'.op = "markInstallmentPaid" /\ last'.outcome = "true") =>
       LET index == findIndex(financings, last'.id)
       IN  /\ Len(financings') = Len(financings)
           /\ \A i \in 1..Len(financings) : i # index => financings'[i] = financings[i]
           /\ [financings'[index] EXCEPT !.installments = financings[index].installments]
                = financings[index]
           /\ Len(financings'[index].installments) = Len(financings[index].installments)
           /\ \A k \in 1..Len(financings[index].installments) :
                LET old == financings[index].installments[k]
                    new == financings'[index].installments[k]
                IN  IF old.number = last'.number
                    THEN new = [old EXCEPT !.status = "paid",
                                           !.paidDate = IF last'.paidDate # NullDate
                                                        THEN last'.paidDate ELSE Today,
                                           !.linkedTransactionId = last'.transactionId]
                    ELSE new = old]_vars

C16_Witness ==
  /\ last.op = "markInstallmentPaid"
  /\ last.outcome = "true"
  /\ last.paidDate = NullDate
  /\ last.number = 2
  /\ Len(financings) = 2
  /\ LET f == financings[findIndex(financings, last.id)]
     IN  /\ Len(f.installments) = 3
         /\ f.installments[2].status = "paid"
         /\ f.installments[2].paidDate = Today
         /\ f.installments[1].status = "pending"
         /\ f.installments[3].status = "pending"

(* C17: in every reachable state of the ledger, in memory and in the       *)
(* store, an installment has a paidDate if and only if its status is paid. *)
C17_PaidDateIffPaid ==
  /\ \A i \in 1..Len(financings) : \A k \in 1..Len(financings[i].installments) :
       (financings[i].installments[k].paidDate # NullDate)
         <=> (financings[i].installments[k].status = "paid")
  /\ \A i \in 1..Len(storage) : \A k \in 1..Len(storage[i].installments) :
       (storage[i].installments[k].paidDate # NullDate)
         <=> (storage[i].installments[k].status = "paid")

C17_Witness ==
  /\ last.op = "markInstallmentPaid"
  /\ last.outcome = "true"
  /\ last.paidDate = NullDate
  /\ LET f == financings[findIndex(financings, last.id)]
     IN  /\ \E k \in 1..Len(f.installments) :
              /\ f.installments[k].number = last.number
              /\ f.installments[k].status = "paid"
              /\ f.installments[k].paidDate = Today
         /\ \E k \in 1..Len(f.installments) :
              /\ f.installments[k].status = "overdue"
              /\ f.installments[k].paidDate = NullDate

(* C18: the summary's remainingBalance is the balance before the next      *)
(* unpaid installment (its balance plus its principal component), and is 0 *)
(* only when every installment is paid; the total is the sum over the      *)
(* financings.                                                             *)
C18_RemainingBalance ==
  LET Expected(f) == IF NonPaid(f) = <<>> THEN 0
                     ELSE NonPaid(f)[1].balance + NonPaid(f)[1].principal
  IN  /\ (last.op = "getFinancingSummary" /\ last.outcome = "ok") =>
           /\ last.ret.remainingBalance = Expected(financings[1])
           /\ last.ret.remainingBalance = 0 => AllPaid(financings[1])
      /\ last.op = "getTotalRemainingBalance" =>
           last.ret = Expected(financings[1])

(* C19: getUpcomingInstallments(count) returns the first count entries of  *)
(* the non-paid installments of all financings by ascending dueDate,       *)
(* entries of one dueDate in insertion order (financing, then              *)
(* installment); it returns no paid installment and at most count entries. *)
C19_Upcoming ==
  last.op = "getUpcomingInstallments" =>
    LET all == allInstallments(financings)
        Rank(j) == Cardinality({i \in 1..Len(all) :
                                  \/ all[i].dueDate < all[j].dueDate
                                  \/ (all[i].dueDate = all[j].dueDate /\ i < j)}) + 1
    IN  /\ Len(last.ret) = Min(last.count, Len(all))
        /\ \A j \in 1..Len(all) : Rank(j) <= last.count => last.ret[Rank(j)] = all[j]
        /\ \A k \in 1..Len(last.ret) : last.ret[k].status # "paid"
        /\ \A i \in 1..Len(financings) : \A k \in 1..Len(financings[i].installments) :
             financings[i].installments[k].status # "paid" =>
               \E j \in 1..Len(all) :
                 /\ all[j].financingId = financings[i].id
                 /\ all[j] = withFinancing(financings[i].installments[k], financings[i])

C19_Witness ==
  /\ last.op = "getUpcomingInstallments"
  /\ Len(financings) = 2
  /\ \E k \in 1..Len(financings[1].installments) : financings[1].installments[k].status = "paid"
  /\ last.ret # slice(allInstallments(financings), last.count)
  /\ \E k \in 1..(Len(last.ret) - 1) :
       /\ last.ret[k].dueDate = last.ret[k + 1].dueDate
       /\ last.ret[k].financingId = financings[1].id
       /\ last.ret[k + 1].financingId = financings[2].id

(* C20: when the write to the store fails during addFinancing,             *)
(* updateFinancing, deleteFinancing, markInstallmentPaid or                *)
(* applyExtraAmortization (the store is left different from the changed    *)
(* collection), the call does not return its normal success value.         *)
C20_SaveFailureReported ==
  [][(/\ last'.op \in {"addFinancing", "updateFinancing", "deleteFinancing",
                       "markInstallmentPaid", "applyExtraAmortization"}
      /\ financings' # financings
      /\ storage' # financings') =>
       last'.outcome \notin {"ok", "true"}]_vars

(* C21: a system other than PRICE or SAC makes generation fail: an         *)
(* addFinancing or updateFinancing that throws leaves the collection and   *)
(* the store as they were, no record of an unknown system is stored, and   *)
(* a simulation of a financing of an unknown system fails too instead of   *)
(* computing it as PRICE or SAC.                                           *)
C21_UnknownSystemFails ==
  [][/\ (last'.op \in {"addFinancing", "updateFinancing"} /\ last'.outcome = "throw") =>
          (financings' = financings /\ storage' = storage)
     /\ (last'.op = "addFinancing" /\ last'.outcome = "ok") =>
          financings'[Len(financings')].system \in Systems
     /\ (last'.op = "updateFinancing" /\ last'.outcome = "true") =>
          financings'[findIndex(financings', last'.id)].system \in Systems
     /\ (last'.op = "simulateExtraAmortizationCall" /\ last'.system \notin Systems) =>
          last'.outcome = "throw"]_vars

(* C22: installment k of a generated schedule is due on startDate advanced *)
(* by k calendar months, on the same day of the month when the target      *)
(* month has that day and on the last day of the target month otherwise.   *)
C22_DueDateClamped ==
  last.op = "generateAmortizationTable" =>
    \A k \in 1..Len(last.ret) :
      LET m0  == (Month(last.startDate) - 1) + k
          y   == Year(last.startDate) + (m0 \div 12)
          m   == (m0 % 12) + 1
          dim == DaysInMonth(y, m)
          d   == IF Day(last.startDate) <= dim THEN Day(last.startDate) ELSE dim
      IN  last.ret[k].dueDate = MkDate(y, m, d)

(* C23: in every schedule generated by calculatePRICE or calculateSAC, the *)
(* sub-schedules of the simulator included, every balance is >= 0, no      *)
(* balance exceeds the one before it (the first does not exceed the        *)
(* principal the schedule starts from), and the last balance is exactly 0. *)
BalancesDescend(schedule, principal) ==
  /\ \A k \in 1..Len(schedule) :
       /\ schedule[k].balance >= 0
       /\ schedule[k].balance <= (IF k = 1 THEN principal ELSE schedule[k - 1].balance)
  /\ Len(schedule) > 0 => schedule[Len(schedule)].balance = 0

C23_BalancesDescendToZero ==
  /\ last.op = "generateAmortizationTable" => BalancesDescend(last.ret, last.principal)
  /\ (last.op = "simulateExtraAmortization" /\ "newInstallments" \in DOMAIN last.ret) =>
       BalancesDescend(last.ret.newInstallments,
                       CurrentBalance(financings[1]) - last.extraAmount)

C23_Witness ==
  /\ last.op = "generateAmortizationTable"
  /\ last.system = "SAC"
  /\ last.principal = 5000
  /\ last.termMonths = 3
  /\ last.ret[1].balance < last.principal
  /\ last.ret[2].balance < last.ret[1].balance
  /\ last.ret[3].balance = 0

(* C24: in every ledger state, for every stored financing, the sum of the  *)
(* principal components of its installments differs from the financing's   *)
(* principal by at most termMonths x 0.01.                                 *)
RECURSIVE SumPrincipal(_)
SumPrincipal(s) == IF s = <<>> THEN 0 ELSE Head(s).principal + SumPrincipal(Tail(s))

C24_PrincipalConserved ==
  \A i \in 1..Len(financings) :
    Abs(SumPrincipal(financings[i].installments) - financings[i].principal)
      <= financings[i].termMonths

(* C25: after addFinancing, updateFinancing, deleteFinancing,              *)
(* markInstallmentPaid (through linkTransaction too) or                    *)
(* applyExtraAmortization returns                                          *)
(* success and its save succeeds, the store equals the in-memory           *)
(* collection; when the save fails the store keeps its content; an         *)
(* operation that fails or returns false writes nothing.                   *)
C25_WriteThrough ==
  [][last'.op \in {"addFinancing", "updateFinancing", "deleteFinancing",
                   "markInstallmentPaid", "applyExtraAmortization"} =>
       IF last'.outcome \in {"ok", "true"}
       THEN IF last'.saved THEN storage' = financings' ELSE storage' = storage
       ELSE storage' = storage]_vars

C25_Witness ==
  /\ last.op = "applyExtraAmortization"
  /\ last.outcome = "ok"
  /\ last.saved
  /\ Len(financings) >= 1
  /\ storage = financings
  /\ \E i \in 1..Len(financings) : financings[i].id = last.id /\ financings[i].termMonths = last.ret.newTerm

(* C26: committed extra amortizations accumulate: a successful             *)
(* applyExtraAmortization on a financing none of whose installments is     *)
(* paid leaves a remaining debt (the principal still to be repaid by the   *)
(* non-paid installments) no higher than the debt before it, up to one     *)
(* cent of rounding per installment.                                       *)
Debt(f) == SumPrincipal(NonPaid(f))

C26_ExtrasAccumulate ==
  [][(last'.op = "applyExtraAmortization" /\ last'.outcome = "ok") =>
       LET i == findIndex(financings, last'.id)
       IN  (PaidOf(financings[i]) = <<>> /\ PaidOf(financings'[i]) = <<>>) =>
             Debt(financings'[i]) <= Debt(financings[i]) + Len(financings'[i].installments)]_vars

(* C27: a paid installment is immutable history: markInstallmentPaid or    *)
(* linkTransaction on an installment that is already paid changes neither  *)
(* its paidDate nor its linkedTransactionId.                               *)
C27_PaidImmutable ==
  [][last'.op = "markInstallmentPaid" =>
       \A i \in 1..Len(financings) :
         \A k \in 1..Len(financings[i].installments) :
           IsPaid(financings[i].installments[k]) =>
             /\ financings'[i].installments[k].paidDate =
                  financings[i].installments[k].paidDate
             /\ financings'[i].installments[k].linkedTransactionId =
                  financings[i].installments[k].linkedTransactionId]_vars

(* C28: in every ledger state, termMonths of every stored financing equals *)
(* the number of installments of its schedule.                             *)
C28_TermIsScheduleLength ==
  \A i \in 1..Len(financings) :
    financings[i].termMonths = Len(financings[i].installments)

(* C29: handleApplyExtra leaves an expense in the transaction list only if *)
(* the extra amortization is committed: when applyExtraAmortization throws *)
(* (no pending installment) or returns null (unknown id), the transaction  *)
(* list is as it was before the attempt.                                   *)
C29_ExpenseOnlyIfCommitted ==
  [][(last'.op = "handleApplyExtra" /\ last'.outcome \in {"throw", "null"}) =>
       transactions' = transactions]_vars

(* C30: with today fixed, in every in-memory ledger state every non-paid   *)
(* installment is overdue exactly when its dueDate is before today and     *)
(* pending otherwise, so that getOverdueCount counts every unpaid          *)
(* installment that is past due.                                           *)
RECURSIVE PastDueUnpaid(_)
PastDueUnpaid(fs) ==
  IF fs = <<>> THEN 0
  ELSE Cardinality({k \in 1..Len(Head(fs).installments) :
                      /\ NotPaid(Head(fs).installments[k])
                      /\ Head(fs).installments[k].dueDate < Today})
       + PastDueUnpaid(Tail(fs))

C30_OverdueIffPastDue ==
  clock = 1 =>
    /\ \A i \in 1..Len(financings) :
         \A k \in 1..Len(financings[i].installments) :
           LET installment == financings[i].installments[k]
           IN  NotPaid(installment) =>
                 installment.status =
                   (IF installment.dueDate < Today THEN "overdue" ELSE "pending")
    /\ getOverdueCount(financings) = PastDueUnpaid(financings)

====
